---- MODULE Spec2Model ----
(***************************************************************************)
(* A model of the session layer of node-ssh (class SSH): the resilient     *)
(* single-path operations mkdir / putFile / getFile, the windowed putFiles,*)
(* the directory transfer engine putDirectory, the shell channel with its  *)
(* prompt-detecting transform and sudo mode, and the shared connection.    *)
(*                                                                         *)
(* JavaScript runs every callback to completion: an action of this model   *)
(* is one callback of the program (the reply to one remote or local        *)
(* request) together with all the promise continuations it triggers.       *)
(* Remote requests that are in flight together are answered in any order.  *)
(***************************************************************************)
EXTENDS Integers, Sequences, FiniteSets, TLC

\* ------------------------------------------------------------------ bounds
MaxFiles == 2      \* files of a plan whose directories and tree vary freely
WideFiles == 6     \* files of the flat plan (all in the remote root directory)
MaxPutFiles == 4   \* files given to one putFiles invocation
MaxWindow == 2     \* largest maxAtOnce given to putFiles
MaxCalls == 2      \* successive mkdir calls on one path
MaxDepth == 5      \* nested mkdir calls followed when the remote answers freely
MaxCmds == 3       \* commands given to runCommandsInShell
MaxOut == 2        \* chunks recorded from a channel
MaxClients == 3    \* clients that share one session
MaxChunks == 3     \* chunks given to the transform taken alone
MaxUsers == 2      \* clients of a session that is disposed of at any time

\* maxAtOnce: number = 5
DefaultMaxAtOnce == 5

\* ------------------------------------------------------------------ paths
\* A remote path is the sequence of its segments; <<>> is the root "/".
RemoteDirectory == <<"r">>
RelDirs == {<<>>, <<"a">>, <<"a", "b">>}
AllDirs == {<<>>, <<"r">>, <<"r", "a">>, <<"r", "a", "b">>}

\* path.dirname: the parent of a path; the root is its own parent.
Dirname(p) == IF p = <<>> THEN <<>> ELSE SubSeq(p, 1, Len(p) - 1)

\* path.join(remoteDirectory, file) followed by path.dirname
RemoteFileDirectory(rel) == RemoteDirectory \o rel

VARIABLES
    mode,                \* the operation under way: "putDirectory", "putFiles", "mkdir"
    files,               \* the plan: files[i] is the directory of file i, relative
    tree0,               \* the remote directories that existed at the start
    givenSftp,           \* whether the caller supplied the channel
    mapIdx,              \* position of the synchronous files.map pass
    directoriesCreated,  \* the Set of putDirectory
    dq,                  \* directoriesQueue: the chain of creation promises
    waitOn,              \* waitOn[i]: the link of dq file i awaits (0: none)
    fpc,                 \* fpc[i]: where file i's task stands
    tickN,               \* tickN[i]: calls of config.tick for file i
    tickErr,             \* tickErr[i]: the error argument of the last tick
    result,              \* how putDirectory ended
    sftpEnded,           \* calls of sftp.end()
    mk,                  \* mk[c]: the stack of mkdir calls of caller c
    mkst,                \* mkst[c]: state of caller c's outermost mkdir call
    mkerr,               \* mkerr[c]: the error it was rejected with
    rdirs,               \* remote directories that exist
    rnondirs,            \* remote paths that exist and are no directory
    rfiles,              \* files transferred to the remote
    mkdirCalls,          \* mkdirCalls[p]: calls of SSH.mkdir(p)
    sftpMkdirs,          \* sftpMkdirs[p]: sftp.mkdir(p) requests
    maxAtOnce,           \* putFiles: the window size
    window,              \* putFiles: iterations of the loop begun so far
    issued,              \* putFiles: the chunks handed to Promise.all, in order
    transferred,         \* putFiles: the local variable transferred
    thrown,              \* putFiles: what the thrown error carries
    target,              \* mkdir called by the program: its path
    callN,               \* mkdir called by the program: calls made so far
    calls,               \* calls[n]: what call n did (its result, its sftp.mkdir
                         \* requests for target, the first reply of sftp.stat)
    putLog,              \* putLog[i]: the replies to the fastPut requests of file
                         \* i's putFile call, and the mkdir calls it made
    shell,               \* the channel of runCommandsInShell or execCommand, with
                         \* the locals of the call
    session              \* the connection and its reference count, with the
                         \* clients that share it

\* the state of the file operations (mkdir, putFile, putFiles, putDirectory)
fileVars == <<mode, files, tree0, givenSftp, mapIdx, directoriesCreated, dq, waitOn, fpc,
              tickN, tickErr, result, sftpEnded, mk, mkst, mkerr, rdirs, rnondirs, rfiles,
              mkdirCalls, sftpMkdirs, maxAtOnce, window, issued, transferred, thrown,
              target, callN, calls, putLog>>

vars == <<fileVars, shell, session>>

\* What a file operation is given, and what it never touches.
inputs == <<mode, files, tree0, givenSftp, rnondirs, maxAtOnce, target, shell, session>>

\* ---------------------------------------------------------------- callers
\* Every outermost mkdir call belongs to a caller: file i's putFile retry
\* (caller i), link k of the directories queue (caller -k), or the program
\* that calls mkdir itself (caller 0).
NFiles == Len(files)
QId(k) == 0 - k
Callers == (0 - NFiles)..NFiles
IsQueueCaller(c) == c < 0
QIndex(c) == 0 - c
RemoteDirOf(i) == RemoteFileDirectory(files[i])

\* The mutable part of the state as one record, so that a callback and the
\* continuations it triggers compose as functions.
St == [fpc |-> fpc, dq |-> dq, tickN |-> tickN, tickErr |-> tickErr,
       result |-> result, sftpEnded |-> sftpEnded, mk |-> mk, mkst |-> mkst,
       mkerr |-> mkerr, rdirs |-> rdirs, rfiles |-> rfiles,
       mkdirCalls |-> mkdirCalls, sftpMkdirs |-> sftpMkdirs, window |-> window,
       issued |-> issued, transferred |-> transferred, thrown |-> thrown,
       putLog |-> putLog]

Apply(s) ==
    /\ fpc' = s.fpc
    /\ dq' = s.dq
    /\ tickN' = s.tickN
    /\ tickErr' = s.tickErr
    /\ result' = s.result
    /\ sftpEnded' = s.sftpEnded
    /\ mk' = s.mk
    /\ mkst' = s.mkst
    /\ mkerr' = s.mkerr
    /\ rdirs' = s.rdirs
    /\ rfiles' = s.rfiles
    /\ mkdirCalls' = s.mkdirCalls
    /\ sftpMkdirs' = s.sftpMkdirs
    /\ window' = s.window
    /\ issued' = s.issued
    /\ transferred' = s.transferred
    /\ thrown' = s.thrown
    /\ putLog' = s.putLog

\* ------------------------------------------------------------ environment
\* The remote filesystem behind sftp.stat, sftp.mkdir and sftp.fastPut.
StatResult(s, p) ==
    IF p \in s.rdirs THEN "dir" ELSE IF p \in rnondirs THEN "other" ELSE "none"

SftpMkdirResult(s, p) ==
    IF p \in s.rdirs \cup rnondirs THEN "Failure"
    ELSE IF Dirname(p) \notin s.rdirs THEN "NoSuchFile"
    ELSE "ok"

FastPutResult(s, i) ==
    IF RemoteDirOf(i) \notin s.rdirs THEN "NoSuchFile" ELSE "ok"

\* ------------------------------------------------------------ putDirectory
\* (mutant) only the first result is looked at
EveryFirst(s) == NFiles = 0 \/ s.fpc[1] = "ok"

\* results.every((i) => i): a task returns true after a transfer, false after
\* a caught error.
Every(s) == \A i \in 1..NFiles : s.fpc[i] = "ok"

\* finally { if (!givenSftp) sftp.end() }
ReleaseSftp(s) == IF givenSftp THEN s ELSE [s EXCEPT !.sftpEnded = @ + 1]

\* await Promise.all(promises): rejected by the first rejected task, resolved
\* when every task has returned.
Settle(s) ==
    IF s.result # "pending" THEN s
    ELSE IF \E i \in 1..NFiles : s.fpc[i] = "rejected"
        THEN [ReleaseSftp(s) EXCEPT !.result = "threw"]
    ELSE IF \A i \in 1..NFiles : s.fpc[i] \in {"ok", "failed"}
        THEN [ReleaseSftp(s) EXCEPT !.result = IF Every(s) THEN "true" ELSE "false"]
    ELSE s

\* config.tick(localFile, remoteFile, e) and the return that follows it
Tick(s, i, e) ==
    [s EXCEPT !.tickN[i] = @ + 1, !.tickErr[i] = e,
              !.fpc[i] = IF e = "null" THEN "ok" ELSE "failed"]

\* ---------------------------------------------------------------- putFiles
Min(a, b) == IF a <= b THEN a ELSE b

\* Array.prototype.slice(from, to) on the array 1..n of file indices
\* (from and to count from 0, to is exclusive and clamped to the length)
Slice(n, from, to) == [j \in 1..(Min(to, n) - Min(from, n)) |-> from + j]

\* Math.ceil(files.length / maxAtOnce)
NumWindows(n, k) == (n + k - 1) \div k

\* files.slice(index, index + maxAtOnce) with index = i * maxAtOnce
Chunk(i) == Slice(NFiles, i * maxAtOnce, i * maxAtOnce + maxAtOnce)

Range(q) == {q[j] : j \in DOMAIN q}

\* finally { if (!sftp) sftp.end() } of putFiles: sftp is the channel in use,
\* the one given or the one requested, and is never null there
SftpIsNull == FALSE

PutFilesFinally(s) == IF SftpIsNull THEN [s EXCEPT !.sftpEnded = @ + 1] ELSE s

\* The loop of putFiles at iteration i: hand the chunk to putFile (each call
\* runs up to its await of helpers.exists), or leave the loop and return.
PutFilesLoop(s, i) ==
    IF i < NumWindows(NFiles, maxAtOnce)
    THEN [s EXCEPT !.window = i + 1,
                   !.issued = Append(@, Chunk(i)),
                   !.fpc = [j \in DOMAIN @ |->
                               IF j \in Range(Chunk(i)) THEN "exists" ELSE @[j]]]
    ELSE PutFilesFinally([s EXCEPT !.result = "done"])

\* (mutant) the loop goes on as soon as one call of the chunk has resolved
PutFilesSettleRace(s) ==
    LET chunk == Chunk(s.window - 1) IN
    IF s.result # "pending" THEN s
    ELSE IF \E j \in Range(chunk) : s.fpc[j] = "failed"
        THEN PutFilesFinally([s EXCEPT !.result = "threw",
                       !.thrown = [transferred |-> s.transferred, before |-> s.rfiles]])
    ELSE IF \E j \in Range(chunk) : s.fpc[j] = "ok"
        THEN PutFilesLoop([s EXCEPT !.transferred = @ \o chunk], s.window)
    ELSE s

\* (mutant) the completed chunk is not added to transferred
PutFilesSettleNoConcat(s) ==
    LET chunk == Chunk(s.window - 1) IN
    IF s.result # "pending" THEN s
    ELSE IF \E j \in Range(chunk) : s.fpc[j] = "failed"
        THEN PutFilesFinally([s EXCEPT !.result = "threw",
                       !.thrown = [transferred |-> s.transferred, before |-> s.rfiles]])
    ELSE IF \A j \in Range(chunk) : s.fpc[j] = "ok"
        THEN PutFilesLoop(s, s.window)
    ELSE s

\* Promise.all(chunk.map(...)) of the current iteration after a putFile call
\* has settled: rejected by the first rejection (catch: error.transferred =
\* transferred; throw), resolved when the whole chunk has resolved
\* (transferred = transferred.concat(chunk), next iteration); the finally
\* when the loop is left.
PutFilesSettle(s) ==
    LET chunk == Chunk(s.window - 1) IN
    IF s.result # "pending" THEN s
    ELSE IF \E j \in Range(chunk) : s.fpc[j] = "failed"
        THEN PutFilesFinally([s EXCEPT !.result = "threw",
                       !.thrown = [transferred |-> s.transferred, before |-> s.rfiles]])
    ELSE IF \A j \in Range(chunk) : s.fpc[j] = "ok"
        THEN PutFilesLoop([s EXCEPT !.transferred = @ \o chunk], s.window)
    ELSE s

\* ----------------------------------------------------------------- putFile
\* What the caller of putFile does when the call for file i resolves, or
\* rejects with e.
PutFileResolved(s, i) ==
    LET s1 == [s EXCEPT !.putLog[i].res = "ok"] IN
    IF mode = "putDirectory" THEN Settle(Tick(s1, i, "null"))
    ELSE PutFilesSettle([s1 EXCEPT !.fpc[i] = "ok"])

PutFileRejected(s, i, e) ==
    LET s1 == [s EXCEPT !.putLog[i].res = e] IN
    IF mode = "putDirectory" THEN Settle(Tick(s1, i, e))
    ELSE PutFilesSettle([s1 EXCEPT !.fpc[i] = "failed"])

\* ------------------------------------------------------------------- mkdir
Frame(p) == [path |-> p, retry |-> TRUE, pc |-> "stat"]

Top(stk) == stk[Len(stk)]
Pop(stk) == SubSeq(stk, 1, Len(stk) - 1)

\* this.mkdir(p, "sftp", sftp) called by caller c from outside mkdir:
\* makeSftpDirectory(true) -> mkdirSftp -> sftp.stat request
MkdirStart(s, c, p) ==
    [s EXCEPT !.mk[c] = <<Frame(p)>>, !.mkst[c] = "run", !.mkdirCalls[p] = @ + 1]

\* (mutant) the retry flag is not looked at
MkdirRetriesAlways(retry, e) == e \in {"NoSuchFile", "ENOENT"}

\* the catch of makeSftpDirectory: recover by creating the parent?
MkdirRetries(retry, e) == retry /\ e \in {"NoSuchFile", "ENOENT"}

\* (mutant) the retry flag is not looked at
PutFileRetriesAlways(retry, e) == e = "NoSuchFile"

\* the reject callback of putFile: recover by creating the parent?
PutFileRetries(retry, e) == e = "NoSuchFile" /\ retry

\* What follows the settling of caller c's outermost mkdir call.
MkSettled(s, c) ==
    IF IsQueueCaller(c) THEN
        LET k == QIndex(c) IN
        IF s.mkst[c] = "ok" THEN
            \* the link resolves: its file goes on to putFile (helpers.exists),
            \* the next link's callback calls mkdir
            LET s1 == [s EXCEPT !.dq[k].st = "ok",
                                !.fpc = [i \in DOMAIN @ |->
                                    IF waitOn[i] = k /\ @[i] = "awaitDir"
                                    THEN "exists" ELSE @[i]]]
            IN  IF k < Len(s.dq)
                THEN MkdirStart([s1 EXCEPT !.dq[k + 1].st = "running"],
                                QId(k + 1), s.dq[k + 1].dir)
                ELSE s1
        ELSE
            \* the link and every later link reject; the tasks awaiting them
            \* reject outside their try block
            Settle([s EXCEPT !.dq = [j \in DOMAIN @ |->
                                        IF j >= k THEN [@[j] EXCEPT !.st = "err"]
                                        ELSE @[j]],
                             !.fpc = [i \in DOMAIN @ |->
                                        IF waitOn[i] >= k /\ @[i] = "awaitDir"
                                        THEN "rejected" ELSE @[i]]])
    ELSE IF c = 0 THEN ReleaseSftp(s)              \* finally; back in the program
    ELSE
        IF s.mkst[c] = "ok"
        THEN [s EXCEPT !.fpc[c] = "put2"]          \* .then(() => putFile(false))
        ELSE PutFileRejected(s, c, s.mkerr[c])

\* the mkdir call on top of caller c's stack resolves
MkReturn(s, c) ==
    LET rest == Pop(s.mk[c]) IN
    IF rest = <<>>
    THEN MkSettled([s EXCEPT !.mk[c] = <<>>, !.mkst[c] = "ok"], c)
    ELSE \* .then(() => makeSftpDirectory(false)) of the call below
         [s EXCEPT !.mk[c] = [rest EXCEPT ![Len(rest)] =
                                  [@ EXCEPT !.retry = FALSE, !.pc = "stat"]]]

\* the mkdir call on top of caller c's stack rejects with e: so does every
\* call below it, which awaits it without a handler
MkFail(s, c, e) ==
    MkSettled([s EXCEPT !.mk[c] = <<>>, !.mkst[c] = "err", !.mkerr[c] = e], c)

\* the catch of makeSftpDirectory, given the rejection e of mkdirSftp
MkCatch(s, c, e) ==
    LET top == Top(s.mk[c]) IN
    IF MkdirRetries(top.retry, e)
    THEN \* this.mkdir(path.dirname(mkdirPath), "sftp", sftp)
         [s EXCEPT !.mk[c] = Append([@ EXCEPT ![Len(@)].pc = "parent"],
                                    Frame(Dirname(top.path))),
                   !.mkdirCalls[Dirname(top.path)] = @ + 1]
    ELSE MkFail(s, c, e)

\* (mutant) the reply of sftp.stat is not looked at
MkAfterStatIgnored(s, c, st) ==
    [s EXCEPT !.mk[c][Len(s.mk[c])].pc = "mkdir",
              !.sftpMkdirs[Top(s.mk[c]).path] = @ + 1]

\* mkdirSftp after the reply st to sftp.stat (an error of sftp.stat is
\* swallowed: stats stays undefined)
MkAfterStat(s, c, st) ==
    LET top == Top(s.mk[c])
    IN  IF st = "dir" THEN MkReturn(s, c)
        ELSE IF st = "other" THEN MkCatch(s, c, "NotADirectory")
        ELSE [s EXCEPT !.mk[c][Len(s.mk[c])].pc = "mkdir",
                       !.sftpMkdirs[top.path] = @ + 1]

\* transformError: an error whose text reads "Error: ENOENT: ..." is given
\* the code ENOENT; any other error is left as it is.
TransformError(e) == IF e = "EnoentText" THEN "ENOENT" ELSE e

\* mkdirSftp after the reply e to sftp.mkdir
MkAfterMkdir(s, c, e) ==
    LET top == Top(s.mk[c]) IN
    IF e = "ok"
    THEN MkReturn([s EXCEPT !.rdirs = @ \cup {top.path}], c)
    ELSE MkCatch(s, c, TransformError(e))

\* ------------------------------------------------------- putDirectory: run
\* The plans: up to MaxFiles files, each in one of the relative directories.
Plans == UNION {[1..n -> RelDirs] : n \in 0..MaxFiles}

\* The remote tree before the invocation: a chain of existing ancestors.
InitialTrees == {{<<>>}, {<<>>, <<"r">>}, {<<>>, <<"r">>, <<"r", "a">>}}

\* The flat plan: WideFiles files directly under the remote directory.
WidePlan == [i \in 1..WideFiles |-> <<>>]

\* The mixed plan: two files of one directory, enumerated before and after a
\* file of another directory.
MixedPlan == <<<<"a">>, <<>>, <<"a">>>>

InitPD ==
    /\ mode = "putDirectory"
    /\ \/ files \in Plans /\ tree0 \in InitialTrees
       \/ files = WidePlan /\ tree0 = {<<>>, RemoteDirectory}
       \/ files = MixedPlan /\ tree0 = {<<>>, RemoteDirectory}
    /\ givenSftp \in BOOLEAN
    /\ mapIdx = 1
    /\ directoriesCreated = {}
    /\ dq = <<>>
    /\ waitOn = [i \in 1..NFiles |-> 0]
    /\ fpc = [i \in 1..NFiles |-> "idle"]
    /\ tickN = [i \in 1..NFiles |-> 0]
    /\ tickErr = [i \in 1..NFiles |-> "none"]
    /\ result = "pending"
    /\ sftpEnded = 0
    /\ mk = [c \in Callers |-> <<>>]
    /\ mkst = [c \in Callers |-> "idle"]
    /\ mkerr = [c \in Callers |-> "none"]
    /\ rdirs = tree0
    /\ rnondirs = {}
    /\ rfiles = {}
    /\ mkdirCalls = [p \in AllDirs |-> 0]
    /\ sftpMkdirs = [p \in AllDirs |-> 0]
    /\ maxAtOnce = DefaultMaxAtOnce
    /\ window = 0
    /\ issued = <<>>
    /\ transferred = <<>>
    /\ thrown = "none"
    /\ target = <<>>
    /\ callN = 0
    /\ calls = <<>>
    /\ putLog = [i \in 1..NFiles |-> [replies |-> <<>>, mkdirs |-> 0, res |-> "run"]]
    /\ shell = "none"
    /\ session = "none"

\* (mutant) the Set is not looked at
MapFileAlways(i) ==
    LET d == RemoteDirOf(i) IN
    /\ directoriesCreated' = directoriesCreated \cup {d}
    /\ dq' = Append(dq, [dir |-> d, st |-> "pending"])
    /\ waitOn' = [waitOn EXCEPT ![i] = Len(dq) + 1]
    /\ fpc' = [fpc EXCEPT ![i] = "awaitDir"]

\* The callback of files.map for file i, up to its first await.
MapFile(i) ==
    LET d == RemoteDirOf(i) IN
    IF d \notin directoriesCreated
    THEN /\ directoriesCreated' = directoriesCreated \cup {d}
         /\ dq' = Append(dq, [dir |-> d, st |-> "pending"])
         /\ waitOn' = [waitOn EXCEPT ![i] = Len(dq) + 1]
         /\ fpc' = [fpc EXCEPT ![i] = "awaitDir"]
    ELSE /\ fpc' = [fpc EXCEPT ![i] = "exists"]
         /\ UNCHANGED <<directoriesCreated, dq, waitOn>>

\* (mutant) only the first DefaultMaxAtOnce files are started by the pass
MapStepWindowed ==
    /\ mapIdx <= NFiles
    /\ IF mapIdx <= DefaultMaxAtOnce
       THEN MapFile(mapIdx)
       ELSE UNCHANGED <<directoriesCreated, dq, waitOn, fpc>>
    /\ mapIdx' = mapIdx + 1
    /\ UNCHANGED <<inputs, tickN, tickErr, result, sftpEnded, mk, mkst, mkerr, rdirs,
                   rfiles, mkdirCalls, sftpMkdirs, window, issued, transferred, thrown,
                   callN, calls, putLog>>

\* One iteration of files.map(async (file) => ...)
MapStep ==
    /\ mapIdx <= NFiles
    /\ MapFile(mapIdx)
    /\ mapIdx' = mapIdx + 1
    /\ UNCHANGED <<inputs, tickN, tickErr, result, sftpEnded, mk, mkst, mkerr, rdirs,
                   rfiles, mkdirCalls, sftpMkdirs, window, issued, transferred, thrown,
                   callN, calls, putLog>>

\* (mutant) every link of the queue calls mkdir at once
MapDoneAllAtOnce ==
    /\ mapIdx = NFiles + 1
    /\ mapIdx' = mapIdx + 1
    /\ Apply(Settle([St EXCEPT
                !.dq = [k \in DOMAIN @ |-> [@[k] EXCEPT !.st = "running"]],
                !.mk = [c \in Callers |->
                           IF IsQueueCaller(c) /\ QIndex(c) <= Len(dq)
                           THEN <<Frame(dq[QIndex(c)].dir)>> ELSE @[c]],
                !.mkst = [c \in Callers |->
                           IF IsQueueCaller(c) /\ QIndex(c) <= Len(dq)
                           THEN "run" ELSE @[c]],
                !.mkdirCalls = [d \in AllDirs |->
                           IF d \in directoriesCreated THEN @[d] + 1 ELSE @[d]]]))
    /\ UNCHANGED <<inputs, directoriesCreated, waitOn, callN, calls>>

\* await Promise.all(promises): the pass is over, the microtasks run; the
\* first link of the queue calls mkdir.
MapDone ==
    /\ mapIdx = NFiles + 1
    /\ mapIdx' = mapIdx + 1
    /\ Apply(Settle(IF dq # <<>>
                    THEN MkdirStart([St EXCEPT !.dq[1].st = "running"], QId(1), dq[1].dir)
                    ELSE St))
    /\ UNCHANGED <<inputs, directoriesCreated, waitOn, callN, calls>>

Running == mapIdx = NFiles + 2

\* No I/O callback runs before the synchronous pass of putDirectory is over.
PassOver == mode = "putDirectory" => Running

\* putFile: the reply to helpers.exists(localFile); then fastPut is issued.
ExistsReply(i, found) ==
    /\ PassOver
    /\ fpc[i] = "exists"
    /\ Apply(IF found
             THEN [St EXCEPT !.fpc[i] = "put1"]
             ELSE PutFileRejected(St, i, "AssertionError"))
    /\ UNCHANGED <<inputs, mapIdx, directoriesCreated, waitOn, callN, calls>>

\* putFile(retry): the callback of sftp.fastPut
PutFileCallback(s, i, retry, e) ==
    LET s1 == [s EXCEPT !.putLog[i].replies = Append(@, e)] IN
    IF e = "ok" THEN PutFileResolved([s1 EXCEPT !.rfiles = @ \cup {i}], i)
    ELSE IF PutFileRetries(retry, e)
        THEN MkdirStart([s1 EXCEPT !.fpc[i] = "mkdir", !.putLog[i].mkdirs = @ + 1],
                        i, RemoteDirOf(i))
    ELSE PutFileRejected(s1, i, e)

\* The failures of sftp.fastPut that do not come from the remote tree as the
\* model keeps it: permission denied, and "No such file" (the directory was
\* there and is gone for this request). The latter is injected into putFiles
\* only.
FastPutFaults == {"none", "PermissionDenied", "NoSuchFile"}

FastPutReply(i, fault) ==
    /\ PassOver
    /\ fpc[i] \in {"put1", "put2"}
    /\ Apply(IF fault # "none"
             THEN PutFileCallback(St, i, fpc[i] = "put1", fault)
             ELSE PutFileCallback(St, i, fpc[i] = "put1", FastPutResult(St, i)))
    /\ UNCHANGED <<inputs, mapIdx, directoriesCreated, waitOn, callN, calls>>

\* What the program's own mkdir call did, kept up to date by the replies:
\* stat is the reply to sftp.stat ("sent": none in this step), reply the
\* reply to sftp.mkdir ("none": none in this step). replies, stats, parent
\* and parentCalls concern the outermost call alone, not the calls nested in it.
LogCall(c, fault, stat, reply) ==
    /\ callN' = callN
    /\ calls' = IF c # 0 THEN calls
                ELSE LET outer == Len(mk[0]) = 1
                         nested == Len(mk'[0]) >= 2 /\ outer
                     IN [calls EXCEPT ![callN] =
                        [res |-> IF mkst'[0] = "err" THEN mkerr'[0] ELSE mkst'[0],
                         attempts |-> @.attempts + sftpMkdirs'[target] - sftpMkdirs[target],
                         statFailed |-> @.statFailed \/ (fault /\ stat # "sent"),
                         firstStat |-> IF @.firstStat = "?" THEN stat ELSE @.firstStat,
                         stats |-> IF outer /\ stat # "sent"
                                   THEN Append(@.stats, stat) ELSE @.stats,
                         replies |-> IF outer /\ reply # "none"
                                     THEN Append(@.replies, reply) ELSE @.replies,
                         parentCalls |-> IF nested THEN @.parentCalls + 1 ELSE @.parentCalls,
                         parent |-> IF nested THEN "run"
                                    ELSE IF outer THEN @.parent
                                    ELSE IF mkst'[0] = "err" THEN mkerr'[0]
                                    ELSE IF Len(mk'[0]) = 1 THEN "ok"
                                    ELSE @.parent]]

\* mkdirSftp: the reply to sftp.stat. A failing sftp.stat (fault) is injected
\* only into mkdir calls of the program itself.
MkStatReply(c, fault) ==
    /\ mkst[c] = "run"
    /\ Top(mk[c]).pc = "stat"
    /\ fault => mode = "mkdir"
    /\ LET st == IF fault THEN "none" ELSE StatResult(St, Top(mk[c]).path)
       IN  /\ Apply(MkAfterStat(St, c, st))
           /\ LogCall(c, fault, st, "none")
    /\ UNCHANGED <<inputs, mapIdx, directoriesCreated, waitOn>>

\* mkdirSftp: the reply to sftp.mkdir
MkMkdirReply(c, fault) ==
    /\ mkst[c] = "run"
    /\ Top(mk[c]).pc = "mkdir"
    /\ LET e == IF fault THEN "PermissionDenied"
                ELSE SftpMkdirResult(St, Top(mk[c]).path)
       IN  /\ Apply(MkAfterMkdir(St, c, e))
           /\ LogCall(c, fault, "sent", e)
    /\ UNCHANGED <<inputs, mapIdx, directoriesCreated, waitOn>>

NextPD ==
    \/ MapStep
    \/ MapDone
    \/ \E i \in 1..NFiles, found \in BOOLEAN : ExistsReply(i, found)
    \/ \E i \in 1..NFiles, fault \in {"none", "PermissionDenied"} : FastPutReply(i, fault)
    \/ \E c \in Callers : MkStatReply(c, FALSE)
    \/ \E c \in Callers, fault \in BOOLEAN : MkMkdirReply(c, fault)

SpecPD == InitPD /\ [][NextPD]_vars

\* ----------------------------------------------------------- putFiles: run
PutFilesDirs == {<<>>, <<"a">>}
PutFilesPlans == UNION {[1..n -> PutFilesDirs] : n \in 0..MaxPutFiles}

\* putFiles(files, givenSftp, maxAtOnce) with one of the plans
InitPutFiles(plans, given) ==
    /\ mode = "putFiles"
    /\ files \in plans
    /\ tree0 \in InitialTrees
    /\ givenSftp = given
    /\ mapIdx = 0
    /\ directoriesCreated = {}
    /\ dq = <<>>
    /\ waitOn = [i \in 1..NFiles |-> 0]
    /\ fpc = [i \in 1..NFiles |-> "idle"]
    /\ tickN = [i \in 1..NFiles |-> 0]
    /\ tickErr = [i \in 1..NFiles |-> "none"]
    /\ result = "pending"
    /\ sftpEnded = 0
    /\ mk = [c \in Callers |-> <<>>]
    /\ mkst = [c \in Callers |-> "idle"]
    /\ mkerr = [c \in Callers |-> "none"]
    /\ rdirs = tree0
    /\ rnondirs = {}
    /\ rfiles = {}
    /\ mkdirCalls = [p \in AllDirs |-> 0]
    /\ sftpMkdirs = [p \in AllDirs |-> 0]
    /\ maxAtOnce \in 1..MaxWindow
    /\ window = 0
    /\ issued = <<>>
    /\ transferred = <<>>
    /\ thrown = "none"
    /\ target = <<>>
    /\ callN = 0
    /\ calls = <<>>
    /\ putLog = [i \in 1..NFiles |-> [replies |-> <<>>, mkdirs |-> 0, res |-> "run"]]
    /\ shell = "none"
    /\ session = "none"

\* putFiles with a channel given by the caller
InitPF == InitPutFiles(PutFilesPlans, TRUE)

\* putFiles up to its first await: the first iteration of the loop
PutFilesStart ==
    /\ mode = "putFiles"
    /\ mapIdx = 0
    /\ mapIdx' = 1
    /\ Apply(PutFilesLoop(St, 0))
    /\ UNCHANGED <<inputs, directoriesCreated, waitOn, callN, calls>>

NextPF ==
    \/ PutFilesStart
    \/ \E i \in 1..NFiles, found \in BOOLEAN : ExistsReply(i, found)
    \/ \E i \in 1..NFiles, fault \in FastPutFaults : FastPutReply(i, fault)
    \/ \E c \in Callers : MkStatReply(c, FALSE)
    \/ \E c \in Callers, fault \in BOOLEAN : MkMkdirReply(c, fault)

SpecPF == InitPF /\ [][NextPF]_vars

\* putFiles without a channel: it requests one itself (requestSFTP succeeds)
\* and hands it to every putFile call. Plans of up to MaxFiles files.
InitPFOwn == InitPutFiles({f \in PutFilesPlans : Len(f) <= MaxFiles}, FALSE)

SpecPFOwn == InitPFOwn /\ [][NextPF]_vars

\* -------------------------------------------------------------- mkdir: run
\* The program calls mkdir(target) itself, up to MaxCalls times in a row.
\* The remote tree is a chain of ancestors, possibly with one path that
\* exists and is no directory.
InitMk ==
    /\ mode = "mkdir"
    /\ files = <<>>
    /\ target \in AllDirs
    /\ tree0 \in InitialTrees \cup {AllDirs}
    /\ rnondirs \in {{}} \cup {{p} : p \in {q \in AllDirs \ tree0 : Dirname(q) \in tree0}}
    /\ givenSftp \in BOOLEAN
    /\ mapIdx = 0
    /\ directoriesCreated = {}
    /\ dq = <<>>
    /\ waitOn = <<>>
    /\ fpc = <<>>
    /\ tickN = <<>>
    /\ tickErr = <<>>
    /\ result = "pending"
    /\ sftpEnded = 0
    /\ mk = [c \in Callers |-> <<>>]
    /\ mkst = [c \in Callers |-> "idle"]
    /\ mkerr = [c \in Callers |-> "none"]
    /\ rdirs = tree0
    /\ rfiles = {}
    /\ mkdirCalls = [p \in AllDirs |-> 0]
    /\ sftpMkdirs = [p \in AllDirs |-> 0]
    /\ maxAtOnce = DefaultMaxAtOnce
    /\ window = 0
    /\ issued = <<>>
    /\ transferred = <<>>
    /\ thrown = "none"
    /\ callN = 0
    /\ calls = <<>>
    /\ putLog = [i \in 1..NFiles |-> [replies |-> <<>>, mkdirs |-> 0, res |-> "run"]]
    /\ shell = "none"
    /\ session = "none"

\* The program calls this.mkdir(target): makeSftpDirectory(true) issues
\* sftp.stat.
MkdirCall ==
    /\ mode = "mkdir"
    /\ mkst[0] # "run"
    /\ callN < MaxCalls
    /\ Apply(MkdirStart(St, 0, target))
    /\ callN' = callN + 1
    /\ calls' = Append(calls, [res |-> "run", attempts |-> 0, statFailed |-> FALSE,
                               firstStat |-> "?", stats |-> <<>>, replies |-> <<>>,
                               parentCalls |-> 0, parent |-> "none"])
    /\ UNCHANGED <<inputs, mapIdx, directoriesCreated, waitOn>>

NextMk ==
    \/ MkdirCall
    \/ \E fault \in BOOLEAN : MkStatReply(0, fault)
    \/ \E fault \in BOOLEAN : MkMkdirReply(0, fault)

SpecMk == InitMk /\ [][NextMk]_vars

\* ------------------------------------------- mkdir: a remote that answers freely
\* The program calls mkdir(target) on a remote whose sftp.stat and sftp.mkdir
\* answer anything: the answers need not fit any tree.
StatReplies == {"dir", "other", "none"}
SftpMkdirReplies == {"ok", "NoSuchFile", "EnoentText", "Failure"}

InitMkAny ==
    /\ InitMk
    /\ tree0 = {<<>>}
    /\ rnondirs = {}

\* One call of this.mkdir(target) by the program.
MkdirCallAny ==
    /\ callN = 0
    /\ MkdirCall

MkStatReplyAny(st) ==
    /\ mkst[0] = "run"
    /\ Top(mk[0]).pc = "stat"
    /\ Apply(MkAfterStat(St, 0, st))
    /\ LogCall(0, FALSE, st, "none")
    /\ UNCHANGED <<inputs, mapIdx, directoriesCreated, waitOn>>

\* A reply that makes mkdir call itself is followed up to MaxDepth nested calls.
MkMkdirReplyAny(e) ==
    /\ mkst[0] = "run"
    /\ Top(mk[0]).pc = "mkdir"
    /\ MkdirRetries(Top(mk[0]).retry, TransformError(e)) => Len(mk[0]) < MaxDepth
    /\ Apply(MkAfterMkdir(St, 0, e))
    /\ LogCall(0, FALSE, "sent", e)
    /\ UNCHANGED <<inputs, mapIdx, directoriesCreated, waitOn>>

NextMkAny ==
    \/ MkdirCallAny
    \/ \E st \in StatReplies : MkStatReplyAny(st)
    \/ \E e \in SftpMkdirReplies : MkMkdirReplyAny(e)

SpecMkAny == InitMkAny /\ [][NextMkAny]_vars

\* ------------------------------------------------------------ getFile: run
\* The program calls getFile up to MaxCalls times in a row, with the channel
\* it was given or with one getFile requests itself.
FastGetReplies == {"ok", "NoSuchFile", "PermissionDenied", "Failure", "ENOENT"}

InitGF ==
    /\ mode = "getFile"
    /\ files = <<>>
    /\ target = <<>>
    /\ tree0 = {<<>>}
    /\ rnondirs = {}
    /\ givenSftp \in BOOLEAN
    /\ mapIdx = 0
    /\ directoriesCreated = {}
    /\ dq = <<>>
    /\ waitOn = <<>>
    /\ fpc = <<>>
    /\ tickN = <<>>
    /\ tickErr = <<>>
    /\ result = "pending"
    /\ sftpEnded = 0
    /\ mk = [c \in Callers |-> <<>>]
    /\ mkst = [c \in Callers |-> "idle"]
    /\ mkerr = [c \in Callers |-> "none"]
    /\ rdirs = tree0
    /\ rfiles = {}
    /\ mkdirCalls = [p \in AllDirs |-> 0]
    /\ sftpMkdirs = [p \in AllDirs |-> 0]
    /\ maxAtOnce = DefaultMaxAtOnce
    /\ window = 0
    /\ issued = <<>>
    /\ transferred = <<>>
    /\ thrown = "none"
    /\ callN = 0
    /\ calls = <<>>
    /\ putLog = <<>>
    /\ shell = "none"
    /\ session = "none"

\* sftp.fastGet(remoteFile, localFile, opts, callback) is issued
FastGet(call) == [call EXCEPT !.pc = "get", !.requests = @ + 1]

\* getFile up to its first await: the asserts (connected: this.connection is
\* set), then requestSFTP() or, with a channel given, fastGet
GetFileStart(connected) ==
    LET call == [pc |-> "sftp", requests |-> 0, replies |-> <<>>, res |-> "run",
                 ended |-> 0]
    IN  IF ~connected THEN [call EXCEPT !.pc = "done", !.res = "AssertionError"]
        ELSE IF givenSftp THEN FastGet(call)
        ELSE call

\* (mutant) a transfer that fails with "No such file" is tried once more
GetFileCallbackRetries(call, e) ==
    LET c1 == [call EXCEPT !.replies = Append(@, e)] IN
    IF e = "NoSuchFile" /\ call.requests = 1 THEN FastGet(c1)
    ELSE [c1 EXCEPT !.pc = "done", !.res = e]

\* the callback of sftp.fastGet: helpers.generateCallback(resolve, reject)
GetFileCallback(call, e) ==
    [call EXCEPT !.replies = Append(@, e), !.pc = "done", !.res = e]

\* finally { if (!givenSftp) sftp.end() }
GetFileFinally(call) ==
    IF call.pc = "done" /\ ~givenSftp THEN [call EXCEPT !.ended = @ + 1] ELSE call

GetFileCall(connected) ==
    /\ mode = "getFile"
    /\ callN < MaxCalls
    /\ callN > 0 => calls[callN].pc = "done"
    /\ callN' = callN + 1
    /\ calls' = Append(calls, GetFileStart(connected))
    /\ Apply(St)
    /\ UNCHANGED <<inputs, mapIdx, directoriesCreated, waitOn>>

\* requestSFTP(): the callback of connection.sftp
RequestSftpReply(ok) ==
    /\ mode = "getFile"
    /\ callN > 0
    /\ calls[callN].pc = "sftp"
    /\ calls' = [calls EXCEPT ![callN] =
                    IF ok THEN FastGet(@) ELSE [@ EXCEPT !.pc = "done", !.res = "SftpError"]]
    /\ Apply(St)
    /\ UNCHANGED <<inputs, mapIdx, directoriesCreated, waitOn, callN>>

\* the reply to sftp.fastGet, and the finally of getFile
FastGetReply(e) ==
    /\ mode = "getFile"
    /\ callN > 0
    /\ calls[callN].pc = "get"
    /\ LET call == GetFileFinally(GetFileCallback(calls[callN], e))
       IN  /\ calls' = [calls EXCEPT ![callN] = call]
           /\ Apply([St EXCEPT !.sftpEnded = @ + call.ended])
    /\ UNCHANGED <<inputs, mapIdx, directoriesCreated, waitOn, callN>>

NextGF ==
    \/ \E connected \in BOOLEAN : GetFileCall(connected)
    \/ \E ok \in BOOLEAN : RequestSftpReply(ok)
    \/ \E e \in FastGetReplies : FastGetReply(e)

SpecGF == InitGF /\ [][NextGF]_vars

\* ============================================================ shell channel
\* The text read from a channel is modelled as a sequence of pieces: the text
\* "[sudo] password for", the text "$ ", the line break "\r\n", and "x",
\* which stands for any other text without a line break.
SudoText == "[sudo] password for"
DollarSpace == "$ "
CRLF == "\r\n"
Alphabet == {SudoText, DollarSpace, CRLF, "x"}

\* The chunks a channel's stdout delivers: some text, a line break, a prompt,
\* a request for the password without and with its line break, a line of
\* text, a line of text and the prompt that follows it, a text with "$ " not
\* at its end and the sudo text not at its start, and two prompts at once.
Chunks ==
    {<<"x">>, <<CRLF>>, <<DollarSpace>>,
     <<SudoText, "x">>, <<SudoText, "x", CRLF>>,
     <<"x", CRLF>>, <<"x", CRLF, "x", DollarSpace>>,
     <<DollarSpace, SudoText>>,
     <<DollarSpace, CRLF, DollarSpace>>}

\* The chunks of its stderr: a line of text.
StderrChunks == {<<"x", CRLF>>}

\* commands: Array<string | ICommand>, each command given by its output flag
\* (a string stands for { cmd, output: false })
CommandLists == UNION {[1..n -> BOOLEAN] : n \in 0..MaxCmds}

\* channel.ignoreChunk when it is null
Null == <<"null">>

\* chunk.toString().split(/(\r\n)/g): the texts between the line breaks, with
\* the line breaks themselves (the group of the pattern) between them
RECURSIVE SplitFrom(_, _, _)
SplitFrom(chunk, k, piece) ==
    IF k > Len(chunk) THEN <<piece>>
    ELSE IF chunk[k] = CRLF
        THEN <<piece, <<CRLF>>>> \o SplitFrom(chunk, k + 1, <<>>)
    ELSE SplitFrom(chunk, k + 1, Append(piece, chunk[k]))

Split(chunk) == SplitFrom(chunk, 1, <<>>)

\* /^\[sudo\] password for.*$/.test(chunkString)
IsSudoPrompt(s) == s # <<>> /\ s[1] = SudoText /\ \A k \in 2..Len(s) : s[k] # CRLF

\* /\$ $/.test(chunkString)
IsShellPrompt(s) == s # <<>> /\ s[Len(s)] = DollarSpace

\* array.join("")
RECURSIVE Join(_)
Join(chunks) == IF chunks = <<>> THEN <<>> ELSE Head(chunks) \o Join(Tail(chunks))

\* String.prototype.trim: of the pieces, only the line break is white space
\* at an end of a text (no recorded text ends with "$ ")
RECURSIVE TrimStart(_)
TrimStart(s) == IF s # <<>> /\ Head(s) = CRLF THEN TrimStart(Tail(s)) ELSE s

RECURSIVE TrimEnd(_)
TrimEnd(s) ==
    IF s # <<>> /\ s[Len(s)] = CRLF THEN TrimEnd(SubSeq(s, 1, Len(s) - 1)) ELSE s

Trim(s) == TrimEnd(TrimStart(s))

\* What a callback of the channel has done so far is noted beside the state
\* of the program: the events raised (prompts, passwords), the commands and
\* credentials written (dispatched, answered), the commands during which a
\* chunk arrived and was not recorded (dropped). The notes are cleared when
\* the next callback begins.
Begin(h) ==
    [h EXCEPT !.prompts = 0, !.passwords = 0, !.dispatched = 0, !.answered = 0,
              !.dropped = {}]

\* saveToStdOut / saveToStdError, and the data listeners of execCommand, which
\* record every chunk. during is the command that was dispatched last (0:
\* none); due counts the chunks that arrived after the dispatch of a command
\* marked for capture and before the next prompt.
OnData(h, stream, chunk) ==
    LET rec == IF h.kind = "exec" THEN TRUE ELSE h.recording
        capturing == h.during # 0 /\ h.given[h.during]
    IN  [h EXCEPT !.output[stream] = IF rec THEN Append(@, chunk) ELSE @,
                  !.due = IF capturing THEN @ + 1 ELSE @,
                  !.dropped = IF rec THEN @ ELSE @ \cup {h.during}]

\* (mutant) the capture flag is set by a command that asks for it and never
\* reset
OnPromptNoReset(h) ==
    LET h1 == [h EXCEPT !.prompts = @ + 1] IN
    IF h.kind = "exec" THEN h1
    ELSE IF h.commands # <<>>
    THEN LET cmd == Head(h.commands)
         IN  [h1 EXCEPT !.commands = Tail(@),
                        !.recording = @ \/ cmd.output,
                        !.written = Append(@, [kind |-> "cmd", id |-> cmd.id]),
                        !.dispatched = @ + 1,
                        !.during = cmd.id]
    ELSE [h1 EXCEPT !.closeCalled = TRUE, !.during = 0]

\* (mutant) a prompt dispatches every command that is left
OnPromptFlush(h) ==
    LET h1 == [h EXCEPT !.prompts = @ + 1] IN
    IF h.kind = "exec" \/ h.commands = <<>> THEN h1
    ELSE [h1 EXCEPT !.commands = <<>>,
                    !.recording = h.commands[Len(h.commands)].output,
                    !.written = @ \o [k \in DOMAIN h.commands |->
                                         [kind |-> "cmd", id |-> h.commands[k].id]],
                    !.dispatched = @ + Len(h.commands),
                    !.during = h.commands[Len(h.commands)].id]

\* (mutant) a prompt that finds the queue empty does nothing
OnPromptNoClose(h) ==
    LET h1 == [h EXCEPT !.prompts = @ + 1] IN
    IF h.kind = "exec" THEN h1
    ELSE IF h.commands # <<>>
    THEN LET cmd == Head(h.commands)
         IN  [h1 EXCEPT !.commands = Tail(@),
                        !.recording = cmd.output,
                        !.written = Append(@, [kind |-> "cmd", id |-> cmd.id]),
                        !.dispatched = @ + 1,
                        !.during = cmd.id]
    ELSE [h1 EXCEPT !.recording = FALSE, !.during = 0]

\* channel.on("prompt", ...) of runCommandsInShell; execCommand has no
\* listener for the event
OnPrompt(h) ==
    LET h1 == [h EXCEPT !.prompts = @ + 1] IN
    IF h.kind = "exec" THEN h1
    ELSE IF h.commands # <<>>
    THEN LET cmd == Head(h.commands)                       \* commands.shift()
         IN  [h1 EXCEPT !.commands = Tail(@),
                        !.recording = cmd.output,
                        !.written = Append(@, [kind |-> "cmd", id |-> cmd.id]),
                        !.dispatched = @ + 1,
                        !.during = cmd.id]
    ELSE [h1 EXCEPT !.recording = FALSE,
                    !.closeCalled = TRUE,                  \* channel.close()
                    !.during = 0]

\* channel.once("password", ...): the listener is removed when it is called
OnPassword(h) ==
    LET h1 == [h EXCEPT !.passwords = @ + 1] IN
    IF h.passwordListener
    THEN [h1 EXCEPT !.written = Append(@, [kind |-> "password", id |-> 0]),
                    !.answered = @ + 1,
                    !.passwordListener = FALSE]
    ELSE h1

\* transform.push(chunkString): an empty text is no chunk of the stream
Push(h, s) ==
    IF s = <<>> THEN h
    ELSE OnData(h, "stdout", s)

\* (mutant) a prompt is announced and pushed as well
TransformSubPushAll(h, s) ==
    IF IsSudoPrompt(s) THEN [OnPassword(h) EXCEPT !.ignoreChunk = <<CRLF>>]
    ELSE IF IsShellPrompt(s) THEN Push(OnPrompt(h), s)
    ELSE IF h.ignoreChunk = s THEN [h EXCEPT !.ignoreChunk = Null]
    ELSE Push(h, s)

\* (mutant) the line break to ignore is never forgotten
TransformSubKeepsIgnore(h, s) ==
    IF IsSudoPrompt(s) THEN [OnPassword(h) EXCEPT !.ignoreChunk = <<CRLF>>]
    ELSE IF IsShellPrompt(s) THEN OnPrompt(h)
    ELSE IF h.ignoreChunk = s THEN h
    ELSE Push(h, s)

\* (mutant) the shell prompt is tested before the password prompt
TransformSubPromptFirst(h, s) ==
    IF IsShellPrompt(s) THEN OnPrompt(h)
    ELSE IF IsSudoPrompt(s) THEN [OnPassword(h) EXCEPT !.ignoreChunk = <<CRLF>>]
    ELSE IF h.ignoreChunk = s THEN [h EXCEPT !.ignoreChunk = Null]
    ELSE Push(h, s)

\* the callback of _.each(lines, ...) in the transform of wrapChannel
TransformSub(h, s) ==
    IF IsSudoPrompt(s) THEN [OnPassword(h) EXCEPT !.ignoreChunk = <<CRLF>>]
    ELSE IF IsShellPrompt(s) THEN OnPrompt(h)
    ELSE IF h.ignoreChunk = s THEN [h EXCEPT !.ignoreChunk = Null]
    ELSE Push(h, s)

RECURSIVE TransformFrom(_, _, _)
TransformFrom(h, lines, k) ==
    IF k > Len(lines) THEN h
    ELSE TransformFrom(TransformSub(h, lines[k]), lines, k + 1)

\* transform(chunk, encoding, callback)
Transform(h, chunk) == TransformFrom(h, Split(chunk), 1)

\* (mutant) the error text is not looked at
OnCloseResolves(h) ==
    [h EXCEPT !.closed = TRUE, !.settled = "resolved",
              !.value = Trim(Join(h.output.stdout))]

\* channel.on("close", ...): of runCommandsInShell, and of execCommand, which
\* resolves with both texts
OnClose(h) ==
    IF h.kind = "exec"
    THEN [h EXCEPT !.closed = TRUE, !.settled = "resolved",
                   !.value = [stdout |-> Trim(Join(h.output.stdout)),
                              stderr |-> Trim(Join(h.output.stderr))]]
    ELSE IF Len(h.output.stderr) # 0
    THEN [h EXCEPT !.closed = TRUE, !.settled = "rejected",
                   !.value = Trim(Join(h.output.stderr))]
    ELSE [h EXCEPT !.closed = TRUE, !.settled = "resolved",
                   !.value = Trim(Join(h.output.stdout))]

\* No file operation is under way.
FilesIdle ==
    /\ mode = "none"
    /\ files = <<>>
    /\ tree0 = {}
    /\ givenSftp = TRUE
    /\ mapIdx = 0
    /\ directoriesCreated = {}
    /\ dq = <<>>
    /\ waitOn = <<>>
    /\ fpc = <<>>
    /\ tickN = <<>>
    /\ tickErr = <<>>
    /\ result = "pending"
    /\ sftpEnded = 0
    /\ mk = <<>>
    /\ mkst = <<>>
    /\ mkerr = <<>>
    /\ rdirs = {}
    /\ rnondirs = {}
    /\ rfiles = {}
    /\ mkdirCalls = <<>>
    /\ sftpMkdirs = <<>>
    /\ maxAtOnce = DefaultMaxAtOnce
    /\ window = 0
    /\ issued = <<>>
    /\ transferred = <<>>
    /\ thrown = "none"
    /\ target = <<>>
    /\ callN = 0
    /\ calls = <<>>
    /\ putLog = <<>>

\* The locals of a call of runCommandsInShell(given, useSudo) (kind "shell") or
\* of execCommand(command, {useSudo}) (kind "exec") that has not begun, on a
\* session whose sudo mode is enabled or not.
ShellLocals(kind, useSudo, enabled, given) ==
    [kind |-> kind, useSudo |-> useSudo, sudoModeEnabled |-> enabled, given |-> given,
     pc |-> "idle", command |-> "none", sudo |-> FALSE, enabledAtCall |-> FALSE,
     commands |-> [k \in DOMAIN given |-> [id |-> k, output |-> given[k]]],
     recording |-> FALSE,
     ignoreChunk |-> Null,
     passwordListener |-> FALSE,
     output |-> [stdout |-> <<>>, stderr |-> <<>>],
     written |-> <<>>,
     closeCalled |-> FALSE, closed |-> FALSE,
     settled |-> "pending", value |-> <<>>,
     during |-> 0, due |-> 0, emitted |-> 0, fed |-> <<>>,
     prompts |-> 0, passwords |-> 0, dispatched |-> 0, answered |-> 0,
     dropped |-> {}]

\* (mutant) sudoShell() does not look at the sudo mode
ShellCalledElevates(h) ==
    [h EXCEPT !.pc = "opening",
              !.enabledAtCall = h.sudoModeEnabled,
              !.sudo = h.useSudo,
              !.command = IF h.kind = "exec" THEN "command"
                          ELSE IF h.useSudo THEN "stty -echo; sudo -i -u jworg_qa"
                          ELSE "stty -echo; bash"]

\* The call up to connection.exec: execCommand computes shouldCheckPassword,
\* runCommandsInShell calls sudoShell() or shell(), and sudoShell() calls
\* shell() unless sudo mode is enabled. command is the command line given to
\* connection.exec.
ShellCalled(h) ==
    LET elevate == h.useSudo /\ h.sudoModeEnabled IN
    [h EXCEPT !.pc = "opening",
              !.enabledAtCall = h.sudoModeEnabled,
              !.sudo = elevate,
              !.command = IF h.kind = "exec" THEN "command"
                          ELSE IF elevate THEN "stty -echo; sudo -i -u jworg_qa"
                          ELSE "stty -echo; bash"]

\* (mutant) the password listener is registered whenever sudo mode is enabled
ShellOpenedListens(h, err) ==
    IF err THEN [h EXCEPT !.pc = "failed", !.settled = "rejected", !.value = <<"err">>]
    ELSE [h EXCEPT !.pc = "open", !.passwordListener = h.sudoModeEnabled]

\* The callback of connection.exec: with an error the call is rejected; with
\* a channel, wrapChannel and the listeners of the call (the password
\* listener only where the call elevates).
ShellOpened(h, err) ==
    IF err THEN [h EXCEPT !.pc = "failed", !.settled = "rejected", !.value = <<"err">>]
    ELSE [h EXCEPT !.pc = "open", !.passwordListener = h.sudo]

\* The channel after runCommandsInShell (kind "shell") or execCommand (kind
\* "exec") has opened it and registered its listeners, on a session whose
\* sudo mode is enabled. sudo: the call asked for sudo, so that the password
\* listener is there.
InitSh ==
    /\ FilesIdle
    /\ session = "none"
    /\ \E kind \in {"shell", "exec"}, sudo \in BOOLEAN, given \in CommandLists :
          /\ kind = "exec" => given = <<>>
          /\ shell = ShellOpened(ShellCalled(ShellLocals(kind, sudo, TRUE, given)), FALSE)

\* Chunks are delivered as long as no more than MaxOut of them are recorded.
Recorded(h) == Len(h.output.stdout) + Len(h.output.stderr)

\* The channel delivers a chunk of stdout to the transform.
ShellStdout(chunk) ==
    /\ shell.pc = "open"
    /\ ~shell.closed
    /\ LET h == Transform(Begin(shell), chunk)
       IN  Recorded(h) <= MaxOut /\ shell' = h
    /\ UNCHANGED <<fileVars, session>>

\* The channel delivers a chunk of stderr, which no transform reads.
ShellStderr(chunk) ==
    /\ shell.pc = "open"
    /\ ~shell.closed
    /\ LET h == OnData(Begin(shell), "stderr", chunk)
       IN  Recorded(h) <= MaxOut /\ shell' = h
    /\ UNCHANGED <<fileVars, session>>

\* The channel emits close.
ShellClose ==
    /\ shell.pc = "open"
    /\ ~shell.closed
    /\ shell' = OnClose(Begin(shell))
    /\ UNCHANGED <<fileVars, session>>

NextSh ==
    \/ \E chunk \in Chunks : ShellStdout(chunk)
    \/ \E chunk \in StderrChunks : ShellStderr(chunk)
    \/ ShellClose

SpecSh == InitSh /\ [][NextSh]_vars

\* -------------------------------------------------- the transform alone
\* The transform is given up to MaxChunks chunks; its output is read by
\* execCommand, which records every chunk of it. fed is the chunks given so
\* far. Beside the chunks of the shell, a chunk holds two line breaks in a
\* row, a request for the password followed by two line breaks, a text that
\* is a request for the password and ends like a prompt, and texts that hold
\* the two markers where they do not count.
TrChunks ==
    {<<"x">>, <<CRLF>>, <<CRLF, CRLF>>, <<DollarSpace>>,
     <<SudoText, "x">>, <<SudoText, "x", CRLF, CRLF>>,
     <<SudoText, DollarSpace>>,
     <<"x", SudoText>>, <<DollarSpace, "x", CRLF>>,
     <<"x", CRLF, "x", DollarSpace>>}

InitTr ==
    /\ FilesIdle
    /\ session = "none"
    /\ \E sudo \in BOOLEAN :
          shell = ShellOpened(ShellCalled(ShellLocals("exec", sudo, TRUE, <<>>)), FALSE)

TrStdout(chunk) ==
    /\ shell.pc = "open"
    /\ Len(shell.fed) < MaxChunks
    /\ shell' = [Transform(Begin(shell), chunk) EXCEPT !.fed = Append(@, chunk)]
    /\ UNCHANGED <<fileVars, session>>

NextTr == \E chunk \in TrChunks : TrStdout(chunk)

SpecTr == InitTr /\ [][NextTr]_vars

\* ------------------------------------------------- sudo mode and the call
\* The program enables and disables sudo mode at any time, calls
\* runCommandsInShell or execCommand once, with or without the sudo flag, and
\* the remote answers as it likes. The commands are none, or one whose output
\* is captured.
SudoCommandLists == {<<>>, <<TRUE>>}

InitSu ==
    /\ FilesIdle
    /\ session = "none"
    /\ \E kind \in {"shell", "exec"}, useSudo \in BOOLEAN, given \in SudoCommandLists :
          /\ kind = "exec" => given = <<>>
          /\ shell = ShellLocals(kind, useSudo, FALSE, given)

\* enableSudoMode(sudoPassword)
EnableSudoMode ==
    /\ shell' = [shell EXCEPT !.sudoModeEnabled = TRUE]
    /\ UNCHANGED <<fileVars, session>>

\* diableSudoMode()
DiableSudoMode ==
    /\ shell' = [shell EXCEPT !.sudoModeEnabled = FALSE]
    /\ UNCHANGED <<fileVars, session>>

\* runCommandsInShell(given, useSudo) or execCommand(command, {useSudo}), up to
\* connection.exec
ShellCall ==
    /\ shell.pc = "idle"
    /\ shell' = ShellCalled(shell)
    /\ UNCHANGED <<fileVars, session>>

\* the callback of connection.exec
ShellOpenReply(err) ==
    /\ shell.pc = "opening"
    /\ shell' = ShellOpened(shell, err)
    /\ UNCHANGED <<fileVars, session>>

NextSu ==
    \/ EnableSudoMode
    \/ DiableSudoMode
    \/ ShellCall
    \/ \E err \in BOOLEAN : ShellOpenReply(err)
    \/ \E chunk \in Chunks : ShellStdout(chunk)
    \/ \E chunk \in StderrChunks : ShellStderr(chunk)
    \/ ShellClose

SpecSu == InitSu /\ [][NextSu]_vars

\* ----------------------------------------------- a remote shell that obeys
\* runCommandsInShell(given) against a remote shell that emits one prompt
\* when it starts and one after each command written to it, alone or at the
\* end of a chunk of output, delivers output in between, and closes the
\* channel when it is asked to. emitted counts the prompts it has emitted.
PromptChunks == {<<DollarSpace>>, <<"x", CRLF, "x", DollarSpace>>}
OutputChunks == {<<"x", CRLF>>}

InitCo ==
    /\ FilesIdle
    /\ session = "none"
    /\ \E given \in CommandLists :
          shell = ShellOpened(ShellCalled(ShellLocals("shell", FALSE, TRUE, given)), FALSE)

RemotePromptIn(chunk) ==
    /\ shell.pc = "open"
    /\ ~shell.closed
    /\ shell.emitted <= Len(SelectSeq(shell.written, LAMBDA w : w.kind = "cmd"))
    /\ LET h == Transform(Begin(shell), chunk)
       IN  shell' = [h EXCEPT !.emitted = @ + 1]
    /\ UNCHANGED <<fileVars, session>>

RemotePrompt == \E chunk \in PromptChunks : RemotePromptIn(chunk)

\* the channel emits close once channel.close() was called
RemoteClose ==
    /\ shell.closeCalled
    /\ ShellClose

NextCo ==
    \/ RemotePrompt
    \/ \E chunk \in OutputChunks : ShellStdout(chunk)
    \/ \E chunk \in StderrChunks : ShellStderr(chunk)
    \/ RemoteClose

\* The remote shell goes on: it emits the prompt it owes, and it closes the
\* channel it was asked to close.
SpecCo == InitCo /\ [][NextCo]_vars /\ WF_vars(RemotePrompt) /\ WF_vars(RemoteClose)

\* ================================================================= session
\* The clients that share one SSH object. Each of them calls connect() once
\* and, at any time after that call, dispose() once. session.connection is
\* this.connection: 0 for null, or the number of the ssh2.Client created.
Clients == 1..MaxClients

\* the clients whose connect() call is not matched by a dispose() call yet
Holders(s) == {c \in Clients : s.clients[c].pc # "idle" /\ ~s.clients[c].disposed}

InitSe ==
    /\ FilesIdle
    /\ shell = "none"
    /\ session = [references |-> 0,
                  connection |-> 0,
                  created |-> 0,
                  conns |-> [id \in Clients |-> [st |-> "none", wasReady |-> FALSE,
                                                 endCalls |-> 0]],
                  clients |-> [c \in Clients |-> [pc |-> "idle", conn |-> 0,
                                                  disposed |-> FALSE]],
                  torn |-> FALSE]

\* connect() up to its first await or, when there is a connection object, up
\* to its return of the promise that is resolved already
Connect(c) ==
    /\ session.clients[c].pc = "idle"
    /\ session' =
         LET s == [session EXCEPT !.references = @ + 1, !.torn = FALSE] IN
         IF s.connection = 0
         THEN LET id == s.created + 1 IN
              [s EXCEPT !.created = id,
                        !.connection = id,
                        !.conns[id].st = "new",
                        !.clients[c] = [@ EXCEPT !.pc = "config", !.conn = id]]
         ELSE [s EXCEPT !.clients[c] = [@ EXCEPT !.pc = "connected", !.conn = s.connection]]
    /\ UNCHANGED <<fileVars, shell>>

\* helpers.normalizeConfig settles: connect() registers its listeners and
\* calls connection.connect(config), or rejects with the error of the config
ConfigDone(c, ok) ==
    /\ session.clients[c].pc = "config"
    /\ session' =
         LET id == session.clients[c].conn
             s == [session EXCEPT !.torn = FALSE] IN
         IF ok
         THEN [s EXCEPT !.conns[id].st = "handshake", !.clients[c].pc = "wait"]
         ELSE [s EXCEPT !.clients[c].pc = "failed"]
    /\ UNCHANGED <<fileVars, shell>>

\* connection.on("ready", ...): the connect() call that created it resolves
Ready(id) ==
    /\ session.conns[id].st = "handshake"
    /\ session' = [session EXCEPT
                     !.torn = FALSE,
                     !.conns[id] = [@ EXCEPT !.st = "ready", !.wasReady = TRUE],
                     !.clients = [c \in Clients |->
                                     IF @[c].pc = "wait" /\ @[c].conn = id
                                     THEN [@[c] EXCEPT !.pc = "connected"] ELSE @[c]]]
    /\ UNCHANGED <<fileVars, shell>>

\* connection.on("error", reject) during the handshake
HandshakeError(id) ==
    /\ session.conns[id].st = "handshake"
    /\ session' = [session EXCEPT
                     !.torn = FALSE,
                     !.conns[id].st = "error",
                     !.clients = [c \in Clients |->
                                     IF @[c].pc = "wait" /\ @[c].conn = id
                                     THEN [@[c] EXCEPT !.pc = "failed"] ELSE @[c]]]
    /\ UNCHANGED <<fileVars, shell>>

\* connection.on("end", ...): the connection has ended, by itself or after
\* connection.end()
End(id) ==
    /\ session.conns[id].st \in {"ready", "error"}
    /\ session' = [session EXCEPT
                     !.torn = FALSE,
                     !.conns[id].st = "ended",
                     !.connection = IF @ = id THEN 0 ELSE @]
    /\ UNCHANGED <<fileVars, shell>>

\* (mutant) the connection is ended whatever the count
DisposeAlways(c) ==
    /\ session.clients[c].pc # "idle"
    /\ ~session.clients[c].disposed
    /\ session' =
         LET s == [session EXCEPT
                     !.references = IF @ > 0 THEN @ - 1 ELSE @,
                     !.clients[c].disposed = TRUE,
                     !.torn = FALSE] IN
         IF s.connection # 0
         THEN [s EXCEPT !.conns[s.connection].endCalls = @ + 1,
                        !.connection = 0,
                        !.torn = TRUE]
         ELSE s
    /\ UNCHANGED <<fileVars, shell>>

\* dispose(); torn notes that this call has ended the connection
Dispose(c) ==
    /\ session.clients[c].pc # "idle"
    /\ ~session.clients[c].disposed
    /\ session' =
         LET s == [session EXCEPT
                     !.references = IF @ > 0 THEN @ - 1 ELSE @,
                     !.clients[c].disposed = TRUE,
                     !.torn = FALSE] IN
         IF s.references = 0 /\ s.connection # 0
         THEN [s EXCEPT !.conns[s.connection].endCalls = @ + 1,    \* connection.end()
                        !.connection = 0,
                        !.torn = TRUE]
         ELSE s
    /\ UNCHANGED <<fileVars, shell>>

NextSe ==
    \/ \E c \in Clients : Connect(c)
    \/ \E c \in Clients, ok \in BOOLEAN : ConfigDone(c, ok)
    \/ \E id \in Clients : Ready(id)
    \/ \E id \in Clients : HandshakeError(id)
    \/ \E id \in Clients : End(id)
    \/ \E c \in Clients : Dispose(c)

SpecSe == InitSe /\ [][NextSe]_vars

\* ------------------------------------------------- session: use and teardown
\* The first MaxUsers clients, each calling connect() at most once, with
\* dispose() called at any time, by a client that holds the connection or
\* not, and with the operations of the session called at any time.
\* session.spare tells that some dispose() call found the count at zero,
\* that is, that dispose() was called more often than connect().
\* session.op is the operation that is being called, from its call to its
\* first await: down tells whether it is called after a teardown and before
\* the next connect(), outcome is "AssertionError" or "TypeError" for a call
\* that fails before any request, "local" for one that awaits the local
\* file system, and "requested" for one that hands its first request to
\* connection "on".
Users == 1..MaxUsers

Asserting == {"requestSFTP", "mkdir", "exec", "execCommand", "execSudoCommand",
              "getFile", "putFiles"}
AssertingThenLocal == {"putFile", "putDirectory"}
Unchecked == {"shell", "sudoShell", "runCommandsInShell"}
Operations == Asserting \cup AssertingThenLocal \cup Unchecked

NoOp == [name |-> "none", down |-> FALSE, outcome |-> "none", on |-> 0]

\* the latest teardown by dispose() has not been followed by a connect()
\* call: connect() makes a new ssh2.Client whenever it finds no connection,
\* and connection.end() is called by dispose() alone
TornDown(s) == s.created > 0 /\ s.conns[s.created].endCalls > 0

InitDi ==
    /\ FilesIdle
    /\ shell = "none"
    /\ session = [references |-> 0,
                  connection |-> 0,
                  created |-> 0,
                  conns |-> [id \in Clients |-> [st |-> "none", wasReady |-> FALSE,
                                                 endCalls |-> 0]],
                  clients |-> [c \in Clients |-> [pc |-> "idle", conn |-> 0,
                                                  disposed |-> FALSE]],
                  torn |-> FALSE,
                  spare |-> FALSE,
                  op |-> NoOp]

\* (mutant) the connection is ended and the handle is kept
DisposedKeepsHandle(s) ==
    LET t == [s EXCEPT !.references = IF @ > 0 THEN @ - 1 ELSE @, !.torn = FALSE] IN
    IF t.references = 0 /\ t.connection # 0
    THEN [t EXCEPT !.conns[t.connection].endCalls = @ + 1,
                   !.torn = TRUE]
    ELSE t

\* the body of dispose()
Disposed(s) ==
    LET t == [s EXCEPT !.references = IF @ > 0 THEN @ - 1 ELSE @, !.torn = FALSE] IN
    IF t.references = 0 /\ t.connection # 0
    THEN [t EXCEPT !.conns[t.connection].endCalls = @ + 1,    \* connection.end()
                   !.connection = 0,
                   !.torn = TRUE]
    ELSE t

\* dispose() called by any client, whether it has called connect() or not
\* and whether it has called dispose() before or not
DisposeCall ==
    /\ session' = [Disposed(session) EXCEPT !.spare = @ \/ session.references = 0]
    /\ UNCHANGED <<fileVars, shell>>

\* a call that fails before any request
Rejected(name, down, error) ==
    [name |-> name, down |-> down, outcome |-> error, on |-> 0]

\* a call that hands its first request to the connection
HandedTo(name, down, id) ==
    [name |-> name, down |-> down, outcome |-> "requested", on |-> id]

\* an operation from its call to its first await
Called(s, name) ==
    LET down == TornDown(s) IN
    \* assert(this.connection, "Not connected to server"), then
    \* connection.sftp(...) of requestSFTP or connection.exec(...) of
    \* execCommand
    IF name \in Asserting
    THEN IF s.connection = 0
         THEN Rejected(name, down, "AssertionError")
         ELSE HandedTo(name, down, s.connection)
    \* the same assert, then await helpers.exists(...); the requestSFTP()
    \* that follows is a call of its own
    ELSE IF name \in AssertingThenLocal
    THEN IF s.connection = 0
         THEN Rejected(name, down, "AssertionError")
         ELSE [name |-> name, down |-> down, outcome |-> "local", on |-> 0]
    \* this.connection.exec(...) in the executor of the promise: null has no
    \* exec, and what the executor throws rejects the promise
    ELSE IF s.connection = 0
    THEN Rejected(name, down, "TypeError")
    ELSE HandedTo(name, down, s.connection)

\* a client calls an operation of the session
Operation(name) ==
    /\ session.op = NoOp
    /\ session' = [session EXCEPT !.op = Called(session, name), !.torn = FALSE]
    /\ UNCHANGED <<fileVars, shell>>

\* the call has returned its promise to the caller
Returned ==
    /\ session.op # NoOp
    /\ session' = [session EXCEPT !.op = NoOp, !.torn = FALSE]
    /\ UNCHANGED <<fileVars, shell>>

\* a call runs to its first await before anything else happens
NextDi ==
    \/ \E name \in Operations : Operation(name)
    \/ Returned
    \/ session.op = NoOp /\ \E c \in Users : Connect(c)
    \/ session.op = NoOp /\ \E c \in Users, ok \in BOOLEAN : ConfigDone(c, ok)
    \/ session.op = NoOp /\ \E id \in Users : Ready(id)
    \/ session.op = NoOp /\ \E id \in Users : HandshakeError(id)
    \/ session.op = NoOp /\ \E id \in Users : End(id)
    \/ session.op = NoOp /\ DisposeCall

SpecDi == InitDi /\ [][NextDi]_vars

\* ================================================================= claims
\* ----------------------------------------------------------- putDirectory
Finished == result # "pending"
Transferred(i) == i \in rfiles
InFlight == Cardinality({i \in 1..NFiles : fpc[i] \in {"put1", "put2"}})
Quiescent == Running /\ \A i \in 1..NFiles : fpc[i] \in {"ok", "failed", "rejected"}
LinkOf(d) == CHOOSE k \in 1..Len(dq) : dq[k].dir = d

\* No failure was injected: every error seen comes from the state of the
\* remote tree.
NoInjectedFault ==
    /\ \A i \in 1..NFiles : tickErr[i] \notin {"AssertionError", "PermissionDenied"}
    /\ \A c \in Callers : mkerr[c] # "PermissionDenied"

\* C1: a putDirectory invocation that returns, returns true if and only if
\* every enumerated file was transferred.
C1_ReturnsTrueIffAllTransferred ==
    result \in {"true", "false"} =>
        (result = "true" <=> \A i \in 1..NFiles : Transferred(i))

C1_Witness ==
    /\ result = "false"
    /\ \E i, j \in 1..NFiles : Transferred(i) /\ ~Transferred(j)

\* C2 (as claimed): when putDirectory has finished, tick has been called
\* exactly once for every enumerated file, with null if the file was
\* transferred and with the error if not, whatever failed.
C2_TickOncePerFile ==
    Finished =>
        \A i \in 1..NFiles :
            /\ tickN[i] = 1
            /\ Transferred(i) <=> tickErr[i] = "null"

\* C3 (as claimed): putDirectory never throws because of a failure that
\* concerns one file: it ends with a boolean.
C3_NeverThrows == result # "threw"

\* C4 (as claimed): a file's transfer is attempted unless the creation of its
\* own parent directory failed: the failure of another file's directory never
\* keeps it from being attempted.
C4_Independent ==
    \A i \in 1..NFiles :
        fpc[i] = "rejected" => mkst[QId(waitOn[i])] = "err"

\* C5 (as claimed): when all files of the plan are siblings whose parent
\* directory is missing and nothing else fails, every file is transferred and
\* SSH.mkdir is called exactly once for the parent.
AllSiblings == NFiles >= 2 /\ \A i, j \in 1..NFiles : files[i] = files[j]

C5_ParentCreatedOnce ==
    (AllSiblings /\ RemoteDirOf(1) \notin tree0 /\ NoInjectedFault /\ Quiescent) =>
        /\ \A i \in 1..NFiles : Transferred(i)
        /\ mkdirCalls[RemoteDirOf(1)] = 1

\* C6 (as claimed): the first fastPut of a file is not in flight before the
\* creation link of its parent directory has settled.
C6_CreationBeforeTransfer ==
    \A i \in 1..NFiles :
        fpc[i] = "put1" => dq[LinkOf(RemoteDirOf(i))].st \in {"ok", "err"}

WindowOf(j) == (j - 1) \div maxAtOnce

\* C8: putFiles issues its transfers in ceil(n/k) windows of k files in plan
\* order, the last one holding the remainder; at most k transfers are in
\* flight, and no file of a window begins before every file of the windows
\* before it has resolved.
C8_Windows ==
    LET n == NFiles
        k == maxAtOnce
    IN  /\ \A w \in 1..Len(issued) :
              /\ Len(issued[w]) = IF w * k <= n THEN k ELSE n - (w - 1) * k
              /\ Len(issued[w]) >= 1
              /\ \A j \in 1..Len(issued[w]) : issued[w][j] = (w - 1) * k + j
        /\ result = "done" => /\ Len(issued) * k >= n
                              /\ (Len(issued) - 1) * k < n
        /\ InFlight <= k
        /\ \A j, h \in 1..n :
              (fpc[j] # "idle" /\ WindowOf(h) < WindowOf(j)) => fpc[h] \in {"ok", "failed"}

C8_Witness ==
    /\ result = "done"
    /\ Len(issued) >= 2
    /\ Len(issued[Len(issued)]) < maxAtOnce

\* C9 (as claimed): the transferred list of the thrown error holds exactly the
\* files that had been transferred when putFiles failed.
C9_TransferredExact ==
    result = "threw" => Range(thrown.transferred) = thrown.before

\* C9 (amended): the transferred list of the thrown error holds exactly the
\* files of the windows completed before the failing window, in plan order;
\* each of them was transferred, but a file of the failing window that was
\* transferred before the failure is not in the list.
C9_TransferredIsCompletedWindows ==
    result = "threw" =>
        /\ thrown.transferred = [j \in 1..((window - 1) * maxAtOnce) |-> j]
        /\ Range(thrown.transferred) \subseteq thrown.before

C9_Witness ==
    /\ result = "threw"
    /\ thrown.transferred # <<>>
    /\ Range(thrown.transferred) # thrown.before

\* ------------------------------------------------------------------ mkdir
\* When the first reply of sftp.stat in a call reports a directory, the call
\* succeeds and sends no sftp.mkdir for the path.
C10_ExistingDirectoryNoCreation ==
    \A n \in 1..callN :
        calls[n].firstStat = "dir" => calls[n].res = "ok" /\ calls[n].attempts = 0

\* C10 (as claimed): mkdir on a path reported as a directory succeeds without
\* a creation call, so two successive calls on one path, the first of which
\* succeeded, make at most one creation attempt for it, and the second call
\* does not fail.
C10_AtMostOneAttempt ==
    /\ C10_ExistingDirectoryNoCreation
    /\ \A n \in 2..callN :
          (calls[n - 1].res = "ok" /\ ~calls[n - 1].statFailed /\ ~calls[n].statFailed
              /\ calls[n].res # "run") =>
              /\ calls[n].res = "ok"
              /\ calls[n - 1].attempts + calls[n].attempts <= 1

\* C10 (amended): mkdir on a path reported as a directory succeeds without a
\* creation call, so a call that follows a successful call on the same path,
\* and whose sftp.stat is answered, makes no creation attempt and does not
\* fail; one call makes at most two creation attempts for its path.
C10_SecondCallCreatesNothing ==
    /\ C10_ExistingDirectoryNoCreation
    /\ \A n \in 2..callN :
          (calls[n - 1].res = "ok" /\ ~calls[n].statFailed) =>
              /\ calls[n].res \in {"run", "ok"}
              /\ calls[n].attempts = 0
    /\ \A n \in 1..callN : calls[n].attempts <= 2

C10_Witness ==
    /\ callN = 2
    /\ calls[1].res = "ok" /\ calls[1].attempts = 2
    /\ calls[2].res = "ok" /\ calls[2].firstStat = "dir"

\* the failure is one that mkdir takes for a missing parent
NotFound(e) == e \in {"NoSuchFile", "ENOENT"}

\* C11: in one mkdir call, a creation failure identified as not-found (message
\* "No such file" or code ENOENT) makes mkdir create the parent path with one
\* nested mkdir call and then try the creation of the path once more; a
\* failure of the nested call, a failure of the second try (not-found or not)
\* and any failure of another kind, the target being no directory included,
\* reach the caller as they are, without another try: at most two creation
\* requests are sent for the path by one call.
C11_RetryOnceOnNotFound ==
    \A n \in 1..callN :
        LET c == calls[n]
            r == c.replies
            err(k) == TransformError(r[k])
        IN  /\ Len(r) <= 2 /\ Len(c.stats) <= 2 /\ Len(r) <= Len(c.stats)
            /\ c.parentCalls <= 1
            /\ c.parentCalls = 1 <=> (Len(r) >= 1 /\ NotFound(err(1)))
            /\ Len(c.stats) = 2 => c.parent = "ok"
            /\ (c.parent = "ok" /\ c.res # "run") => Len(c.stats) = 2
            /\ c.parent \notin {"none", "run", "ok"} =>
                    c.res = c.parent /\ Len(c.stats) = 1
            /\ (Len(r) >= 1 /\ r[1] # "ok" /\ ~NotFound(err(1))) =>
                    c.res = err(1) /\ Len(c.stats) = 1
            /\ (Len(r) = 2 /\ r[2] # "ok") => c.res = err(2)
            /\ (c.stats # <<>> /\ c.stats[Len(c.stats)] = "other") =>
                    c.res = "NotADirectory" /\ Len(r) = Len(c.stats) - 1

\* the retry failed as not-found again, and was not retried
C11_Witness ==
    /\ callN = 1
    /\ calls[1].replies = <<"EnoentText", "NoSuchFile">>
    /\ calls[1].res = "NoSuchFile"
    /\ calls[1].parentCalls = 1

\* C12 (as claimed): the recursion of mkdir on parent paths ends whatever the
\* remote answers: every mkdir call nested in another one is for a path
\* strictly shorter than the path of the call it is nested in, so that the
\* nesting is never deeper than the path is long.
C12_RecursionDescends ==
    \A k \in 2..Len(mk[0]) : Len(mk[0][k].path) < Len(mk[0][k - 1].path)

\* ---------------------------------------------------------------- putFile
\* C13: in one putFile call, a transfer that fails with "No such file" makes
\* putFile call mkdir for the remote parent directory and, when that has
\* succeeded, try the transfer once more; any other failure of the transfer,
\* a failure of mkdir and a failure of the second try reject the call with
\* that error: one call sends at most two fastPut requests and calls mkdir at
\* most once.
C13_RetryOnceOnNoSuchFile ==
    \A i \in 1..NFiles :
        LET L == putLog[i]
            r == L.replies
        IN  /\ Len(r) <= 2 /\ L.mkdirs <= 1
            /\ L.mkdirs = 1 <=> (Len(r) >= 1 /\ r[1] = "NoSuchFile")
            /\ Len(r) = 2 => mkst[i] = "ok"
            /\ mkst[i] = "ok" => (Len(r) = 2 \/ fpc[i] = "put2")
            /\ mkst[i] = "err" => L.res = mkerr[i] /\ Len(r) = 1
            /\ (Len(r) >= 1 /\ r[1] \notin {"ok", "NoSuchFile"}) =>
                    L.res = r[1] /\ Len(r) = 1
            /\ (Len(r) = 2 /\ r[2] # "ok") => L.res = r[2]
            /\ L.res = "ok" <=> (r # <<>> /\ r[Len(r)] = "ok")

\* the second try failed with "No such file" again, and was not retried
C13_Witness ==
    \E i \in 1..NFiles :
        /\ putLog[i].replies = <<"NoSuchFile", "NoSuchFile">>
        /\ putLog[i].res = "NoSuchFile"
        /\ putLog[i].mkdirs = 1

\* ---------------------------------------------------------- shell channel
IsCmd(w) == w.kind = "cmd"
CommandsWritten == SelectSeq(shell.written, IsCmd)
Capturing == shell.during # 0 /\ shell.given[shell.during]

\* C14: runCommandsInShell writes the commands to the channel in the order
\* of the queue, and only in answer to a prompt event: a callback of the
\* channel writes no more commands than it has raised prompt events, one for
\* each, so that the commands written never outnumber the prompts observed.
C14_FifoOnPrompt ==
    shell.kind = "shell" =>
        /\ \A k \in 1..Len(CommandsWritten) : CommandsWritten[k].id = k
        /\ Len(CommandsWritten) + Len(shell.commands) = Len(shell.given)
        /\ \A k \in 1..Len(shell.commands) :
              shell.commands[k].id = Len(CommandsWritten) + k
        /\ shell.dispatched <= shell.prompts
        /\ shell.closeCalled => shell.commands = <<>>

\* three commands written, the last two in answer to the two prompts of one
\* chunk
C14_Witness ==
    /\ shell.kind = "shell"
    /\ Len(CommandsWritten) = 3
    /\ shell.prompts = 2 /\ shell.dispatched = 2

\* C15: the output runCommandsInShell accumulates is made of the chunks that
\* arrive between the dispatch of a command marked for capture and the next
\* prompt event, and of no other chunk: the capture flag is on exactly while
\* the command dispatched last is marked for capture.
C15_CapturedExactly ==
    shell.kind = "shell" =>
        /\ shell.recording <=> Capturing
        /\ Recorded(shell) = shell.due
        /\ \A d \in shell.dropped : d = 0 \/ ~shell.given[d]

\* ["echo A", {cmd: "echo B", output: true}, "echo C"]: output of echo B is
\* recorded, a chunk of the output of echo C has just been dropped
C15_Witness ==
    /\ shell.kind = "shell"
    /\ shell.given = <<FALSE, TRUE, FALSE>>
    /\ shell.output.stdout # <<>>
    /\ shell.dropped = {3}

\* v is s without the line breaks at its two ends
IsTrimOf(v, s) ==
    /\ v # <<>> => v[1] # CRLF /\ v[Len(v)] # CRLF
    /\ \E i \in 0..Len(s) :
          /\ i + Len(v) <= Len(s)
          /\ \A k \in 1..Len(v) : s[i + k] = v[k]
          /\ \A k \in 1..Len(s) : (k <= i \/ k > i + Len(v)) => s[k] = CRLF

\* C16: runCommandsInShell settles when the channel emits close and not
\* before: it fails with the joined, trimmed text recorded from stderr if any
\* chunk of stderr was recorded, and resolves with the joined, trimmed text
\* recorded from stdout otherwise.
C16_SettlesAtClose ==
    shell.kind = "shell" =>
        /\ shell.settled # "pending" <=> shell.closed
        /\ shell.settled = "rejected" <=> (shell.closed /\ shell.output.stderr # <<>>)
        /\ shell.settled = "rejected" => IsTrimOf(shell.value, Join(shell.output.stderr))
        /\ shell.settled = "resolved" => IsTrimOf(shell.value, Join(shell.output.stdout))

\* stdout and stderr were both recorded: the call fails with the text of
\* stderr without its line break
C16_Witness ==
    /\ shell.kind = "shell"
    /\ shell.settled = "rejected"
    /\ shell.output.stdout # <<>>
    /\ shell.value = <<"x">>

\* C17 (as claimed): in a privileged shell session every password event is
\* answered: a callback of the channel writes the credential once for each
\* password event it has raised.
C17_EveryPasswordAnswered ==
    (shell.kind = "shell" /\ shell.sudo) => shell.answered = shell.passwords

\* C18: no text that the transform takes for a password prompt or a shell
\* prompt is pushed to the transformed stream: none is among the chunks
\* recorded by runCommandsInShell, nor among those recorded by execCommand,
\* which records every chunk of the stream.
C18_PromptsNotForwarded ==
    \A k \in 1..Len(shell.output.stdout) :
        /\ ~IsSudoPrompt(shell.output.stdout[k])
        /\ ~IsShellPrompt(shell.output.stdout[k])

\* execCommand has recorded a line of text and not the prompt that came with
\* it in one chunk
C18_Witness ==
    /\ shell.kind = "exec"
    /\ shell.prompts = 1
    /\ shell.output.stdout = <<<<"x">>, <<CRLF>>>>

C20_ResolvedAfterReady ==
    \A c \in Clients :
        session.clients[c].pc = "connected" =>
            session.conns[session.clients[c].conn].wasReady

\* ------------------------------------------------------------- sudo mode
IsPassword(w) == w.kind = "password"
PasswordsWritten == SelectSeq(shell.written, IsPassword)

\* C21: a call of runCommandsInShell that asks for sudo while sudo mode is not
\* enabled does what a call without the flag does: the command it opens the
\* channel with is the plain shell, it registers no password listener, and
\* it never writes the credential, whatever the channel delivers.
C21_FallsBackToPlainShell ==
    (shell.kind = "shell" /\ shell.useSudo /\ shell.pc # "idle" /\ ~shell.enabledAtCall) =>
        /\ shell.command = "stty -echo; bash"
        /\ ~shell.passwordListener
        /\ PasswordsWritten = <<>>
        /\ shell.answered = 0

\* the plain shell has delivered a request for the password, after sudo mode
\* was enabled at last: nothing was written in answer
C21_Witness ==
    /\ shell.kind = "shell" /\ shell.useSudo /\ ~shell.enabledAtCall
    /\ shell.sudoModeEnabled
    /\ shell.pc = "open"
    /\ shell.passwords = 1
    /\ shell.written = <<>>

\* C30: the credential is written only by a call that asked for sudo while
\* sudo mode was enabled: execCommand without useSudo and runCommandsInShell
\* without the sudo flag, which opens the channel with shell(), write none,
\* whatever the channel delivers and whether or not sudo mode is enabled.
C30_CredentialOnlyWhenRequested ==
    (PasswordsWritten # <<>> \/ shell.answered > 0 \/ shell.passwordListener) =>
        shell.useSudo /\ shell.enabledAtCall

\* execCommand without useSudo, sudo mode enabled: a request for the password
\* has arrived and was not answered
C30_Witness ==
    /\ shell.kind = "exec" /\ ~shell.useSudo /\ shell.enabledAtCall
    /\ shell.passwords = 1
    /\ shell.written = <<>>
    /\ shell.output.stdout # <<>>

\* ---------------------------------------------------------------- getFile
\* C22: getFile does not retry and does not recover: a call sends at most
\* one fastGet request (one when it has passed its checks and has a channel,
\* none otherwise), the reply to that request settles the call at once, with
\* the error of the reply if it is one, and no directory is created.
C22_GetFileNoRetry ==
    mode = "getFile" =>
        /\ \A n \in 1..callN :
              LET c == calls[n] IN
              /\ c.requests <= 1
              /\ Len(c.replies) <= c.requests
              /\ c.requests = 1 <=> (c.pc = "get" \/ c.replies # <<>>)
              /\ c.replies # <<>> => c.pc = "done" /\ c.res = c.replies[1]
              /\ c.pc = "done" <=> c.res # "run"
        /\ \A p \in AllDirs : mkdirCalls[p] = 0 /\ sftpMkdirs[p] = 0
        /\ rdirs = tree0

\* a call that failed with "No such file" after one request, followed by a
\* call that succeeded
C22_Witness ==
    /\ mode = "getFile"
    /\ callN = 2
    /\ calls[1].res = "NoSuchFile" /\ calls[1].requests = 1
    /\ calls[2].res = "ok"

\* ------------------------------------------------- putDirectory: the queue
\* the files the pass of files.map has handled
Mapped == 1..(IF mapIdx > NFiles THEN NFiles ELSE mapIdx - 1)

\* C23: in one putDirectory invocation every remote parent directory is
\* chained onto the directories queue at most once: no two links of the
\* queue are for one directory, the links are for the directories of the
\* Set, and each file handled by the pass has exactly one link for its parent.
C23_ParentChainedOnce ==
    mode = "putDirectory" =>
        /\ \A j, k \in 1..Len(dq) : dq[j].dir = dq[k].dir => j = k
        /\ {dq[k].dir : k \in 1..Len(dq)} = directoriesCreated
        /\ directoriesCreated = {RemoteDirOf(i) : i \in Mapped}

\* the mixed plan after the pass: two links for three files
C23_Witness ==
    /\ files = MixedPlan
    /\ Running
    /\ Len(dq) = 2
    /\ waitOn = <<1, 2, 0>>

\* the mkdir call of link k has begun; it has settled
LinkStarted(k) == mkst[QId(k)] # "idle"
LinkFinished(k) == mkst[QId(k)] \in {"ok", "err"}

\* C24: the creations asked for through the directories queue run one at a
\* time, in the order in which the pass met their directories: the mkdir
\* call of a link does not begin before the call of every link before it has
\* settled, at most one of them is running, and the links are in the order
\* of the first files of their directories, while transfers are in flight
\* beside them.
C24_CreationsInDiscoveryOrder ==
    mode = "putDirectory" =>
        /\ \A k \in 1..Len(dq) :
              LinkStarted(k) => \A j \in 1..(k - 1) : LinkFinished(j)
        /\ Cardinality({k \in 1..Len(dq) : mkst[QId(k)] = "run"}) <= 1
        /\ \A k \in 1..Len(dq) :
              \E i \in Mapped :
                  /\ waitOn[i] = k
                  /\ dq[k].dir = RemoteDirOf(i)
                  /\ \A h \in 1..(i - 1) : RemoteDirOf(h) # dq[k].dir /\ waitOn[h] < k

\* the mixed plan: the directory met first ("r/a") was created first, its
\* file is being transferred while the creation of the directory met second
\* ("r", which sorts before it) is running
C24_Witness ==
    /\ files = MixedPlan
    /\ mkst[QId(1)] = "ok"
    /\ mkst[QId(2)] = "run"
    /\ dq[1].dir = <<"r", "a">> /\ dq[2].dir = <<"r">>
    /\ fpc[1] = "put1"

\* ---------------------------------------------------- putDirectory: channel
\* C25 (as claimed): putDirectory ends the channel it has requested itself
\* exactly once, when it finishes, however it finishes, and not before every
\* file's task has settled; it never ends a channel it was given.
C25_ReleasedOnceAfterAllSettled ==
    mode = "putDirectory" =>
        /\ givenSftp => sftpEnded = 0
        /\ ~givenSftp => sftpEnded = (IF Finished THEN 1 ELSE 0)
        /\ sftpEnded >= 1 => \A i \in 1..NFiles : fpc[i] \in {"ok", "failed", "rejected"}

\* ----------------------------------------------------------- the transform
\* the sub-chunks of the chunks given to the transform, in arrival order
RECURSIVE SubsOf(_)
SubsOf(chunks) == IF chunks = <<>> THEN <<>> ELSE Split(Head(chunks)) \o SubsOf(Tail(chunks))

Subs == SubsOf(shell.fed)

\* a password prompt came before sub-chunk k, and no line break since
Armed(subs, k) ==
    \E j \in 1..(k - 1) :
        /\ IsSudoPrompt(subs[j])
        /\ \A i \in (j + 1)..(k - 1) : subs[i] # <<CRLF>>

\* the sub-chunks at the positions of K, in order
RECURSIVE PickFrom(_, _, _)
PickFrom(subs, K, k) ==
    IF k > Len(subs) THEN <<>>
    ELSE (IF k \in K THEN <<subs[k]>> ELSE <<>>) \o PickFrom(subs, K, k + 1)

\* C26: a line break is swallowed by the transform exactly when it is the
\* first line-break sub-chunk after a password prompt: the line breaks that
\* reach the output are those that no password prompt came before, or that
\* followed another line break since the last password prompt, and the
\* transform remembers a line break to ignore exactly while a password prompt
\* has come and no line break since.
C26_TerminatorSwallowedOnce ==
    LET subs == Subs
        breaks == {k \in 1..Len(subs) : subs[k] = <<CRLF>>}
    IN  /\ PickFrom(shell.output.stdout, {k \in 1..Len(shell.output.stdout) :
                                               shell.output.stdout[k] = <<CRLF>>}, 1)
             = PickFrom(subs, {k \in breaks : ~Armed(subs, k)}, 1)
        /\ shell.ignoreChunk = <<CRLF>> <=> Armed(subs, Len(subs) + 1)
        /\ shell.ignoreChunk \in {Null, <<CRLF>>}

\* a request for the password followed by two line breaks: the first is
\* swallowed, the second is forwarded
C26_Witness ==
    /\ shell.fed = <<<<SudoText, "x", CRLF, CRLF>>>>
    /\ shell.passwords = 1
    /\ shell.output.stdout = <<<<CRLF>>>>
    /\ shell.ignoreChunk = Null

\* the number of sub-chunks of a chunk that satisfy Test
CountSubs(chunk, Test(_)) ==
    Cardinality({k \in 1..Len(Split(chunk)) : Test(Split(chunk)[k])})

IsPromptOnly(s) == IsShellPrompt(s) /\ ~IsSudoPrompt(s)

\* C27: the transform handles each sub-chunk in one way, testing for the
\* password prompt first, then for the shell prompt, then for the line break
\* to ignore: the output is made of the sub-chunks that are none of the
\* three, unchanged and in arrival order (an empty text is no chunk), and a
\* chunk raises one password event for each sub-chunk that is a password
\* prompt and one prompt event for each sub-chunk that is a shell prompt and
\* no password prompt.
C27_EachSubChunkHandledOnce ==
    LET subs == Subs
        kept == {k \in 1..Len(subs) :
                    /\ ~IsSudoPrompt(subs[k])
                    /\ ~IsShellPrompt(subs[k])
                    /\ ~(subs[k] = <<CRLF>> /\ Armed(subs, k))
                    /\ subs[k] # <<>>}
    IN  /\ shell.output.stdout = PickFrom(subs, kept, 1)
        /\ shell.fed # <<>> =>
              LET last == shell.fed[Len(shell.fed)] IN
              /\ shell.passwords = CountSubs(last, IsSudoPrompt)
              /\ shell.prompts = CountSubs(last, IsPromptOnly)

\* a text that is a password prompt and ends like a shell prompt raises the
\* password event alone
C27_Witness ==
    /\ shell.fed = <<<<"x", CRLF, "x", DollarSpace>>, <<SudoText, DollarSpace>>>>
    /\ shell.passwords = 1
    /\ shell.prompts = 0
    /\ shell.output.stdout = <<<<"x">>, <<CRLF>>>>

\* ------------------------------------------------- the end of the queue
\* every command so far was written once, in the order of the queue, and
\* channel.close() is called by the prompt that finds the queue empty: the
\* prompts emitted are one for each command written, and one more once the
\* close was asked for
ClosedAtEmptyQueue ==
    /\ \A k \in 1..Len(CommandsWritten) : CommandsWritten[k].id = k
    /\ shell.emitted = Len(CommandsWritten) + (IF shell.closeCalled THEN 1 ELSE 0)
    /\ shell.closeCalled =>
          /\ shell.commands = <<>>
          /\ Len(CommandsWritten) = Len(shell.given)
          /\ shell.emitted = Len(shell.given) + 1
    /\ shell.settled # "pending" => shell.closed /\ shell.closeCalled

\* C28: against a remote shell that emits a prompt after each command,
\* runCommandsInShell writes each of its n commands once, asks for the close
\* of the channel at prompt n + 1, where the queue is empty, instead of
\* writing, and settles in the end, when the channel has emitted close.
C28_ClosesWhenQueueEmpty ==
    /\ []ClosedAtEmptyQueue
    /\ <>(shell.settled # "pending")

\* three commands: the fourth prompt asked for the close, the channel has
\* closed and the call is resolved with the output captured
C28_Witness ==
    /\ Len(shell.given) = 3
    /\ shell.emitted = 4
    /\ shell.closeCalled
    /\ shell.settled = "resolved"
    /\ shell.value # <<>>

\* ------------------------------------------------------ putFiles: channel
\* C29 (as claimed): putFiles ends the channel it has requested itself
\* exactly once when it finishes, by returning or by throwing, and never
\* ends a channel it was given.
C29_PutFilesReleasesOwnChannel ==
    mode = "putFiles" =>
        /\ givenSftp => sftpEnded = 0
        /\ ~givenSftp => sftpEnded = (IF Finished THEN 1 ELSE 0)

\* ------------------------------------------------------ use after teardown
\* C31: from a dispose() call that ends the connection until the next
\* connect() call, this.connection is null, and every operation called in
\* between fails before it hands any request to a connection, so that no
\* request is ever handed to a connection that dispose() has ended; the
\* reference count is never negative, however often dispose() is called.
C31_NullUntilConnect ==
    /\ session.references >= 0
    /\ TornDown(session) => session.connection = 0
    /\ session.op.down =>
           /\ session.op.outcome \in {"AssertionError", "TypeError"}
           /\ session.op.on = 0
    /\ session.op.outcome = "requested" =>
           /\ session.op.on = session.connection
           /\ session.conns[session.op.on].endCalls = 0

\* dispose() was called more often than connect(), the connection that was
\* ready is ended, and an operation called since then has been rejected
C31_Witness ==
    /\ session.spare
    /\ session.references = 0
    /\ TornDown(session) /\ session.conns[session.created].wasReady
    /\ session.op.down /\ session.op.outcome = "AssertionError"
====
